---- MODULE Spec2Model ----
(***************************************************************************)
(* Model of the PDF-QLM question answering service (src/app.py) with its   *)
(* document processors (src/models/__init__.py, document_processor.py)     *)
(* and its answer engine (src/models/qa_engine.py).                        *)
(*                                                                         *)
(* Scheduling: the service is one asyncio event loop.  A coroutine runs    *)
(* without interruption until it awaits something that is not finished.    *)
(* process_pdf_from_url, create_vector_store and get_answer contain no     *)
(* await (requests.get, the loaders, FAISS and the chain are blocking      *)
(* calls), so the only suspension point of the request handler is          *)
(* the await of asyncio.gather at app.py line 117.  gather schedules one    *)
(* task per question of the batch, in order, on the loop's first in first  *)
(* out ready queue; a task runs to its end when the loop reaches it, and   *)
(* the handler resumes when the last one has finished.  The actions below  *)
(* are the segments of the handler between suspension points.              *)
(***************************************************************************)
EXTENDS Integers, Sequences, FiniteSets, TLC

\* ---------------------------------------------------------------- bounds
NumReq == 2          \* number of POST requests issued
MaxShort == 1        \* short question lists have 0..MaxShort questions
MaxOver == 1         \* long lists have batch_size..batch_size+MaxOver questions
MaxFetchCalls == 2   \* direct calls of a processor in FetchSpec

\* ------------------------------------------------------ program constants
batch_size == 50

Reqs == 1..NumReq

NoUrl == ""

PRE_WARM_DOC_URL == "assets/Arogya%20Sanjeevani%20Policy.pdf?sig=nzrz"

\* The same document under another signature: a different literal string.
OtherDocUrl == "assets/Arogya%20Sanjeevani%20Policy.pdf?sig=other"

DocUrls == {PRE_WARM_DOC_URL, OtherDocUrl}

\* Python's None, as a value comparable with an index record.
None == [url |-> NoUrl, serial |-> 0]

\* The questions clients ask, and the list of n of them a request carries.
Questions == {"q1", "q2"}

QList(n) == [i \in 1..n |-> IF i % 2 = 1 THEN "q1" ELSE "q2"]

\* No question, one full batch, and MaxOver questions more than a batch.
QLens == {0, batch_size, batch_size + MaxOver}

ShortLens == 0..MaxShort


\* ----------------------------------------------------------- exceptions
\* An exception: its type and str(e) as text and the URL the text names.
\* An HTTPException carries status_code, and in about/url the str(e) it wraps.
NoExc == [type |-> "", text |-> "", about |-> "", url |-> NoUrl, status_code |-> 0]

Exc(type, text, url) ==
    [type |-> type, text |-> text, about |-> "", url |-> url, status_code |-> 0]

HTTPException(status_code, detail, e) ==
    [type |-> "HTTPException", text |-> detail, about |-> e.text, url |-> e.url,
     status_code |-> status_code]

\* What the outside world does to one fetch, and to one index build.
FetchFates == {"download_fail", "write_fail", "parse_fail", "split_fail", "empty", "chunks"}

FetchFailures == {"download_fail", "write_fail", "parse_fail", "split_fail"}

BuildFates == {"embed_fail", "ok"}

\* The fates that matter: none when no fetch is made, none when no index is built.
FetchFatesIf(fetches) == IF fetches THEN FetchFates ELSE {"none"}

BuildFatesIf(fate) == IF fate = "chunks" THEN BuildFates ELSE {"none"}

Chunks(url) == <<[source |-> url, page |-> 0]>>

\* The mutant of process_pdf_from_url: a failed download gives no chunks
\* instead of raising.
process_pdf_from_url_swallowing(pdf_url, fate) ==
    LET downloaded == fate # "download_fail"
        written == downloaded /\ fate # "write_fail"
        loaded == written /\ fate # "parse_fail"
        split == loaded /\ fate # "split_fail"
        exc == IF ~downloaded THEN NoExc
               ELSE IF ~written THEN Exc("OSError", "write failed", NoUrl)
               ELSE IF ~loaded THEN Exc("PdfReadError", "load failed", NoUrl)
               ELSE IF ~split THEN Exc("ValueError", "split failed", NoUrl)
               ELSE NoExc
    IN  [raised |-> exc # NoExc,
         exc |-> exc,
         value |-> IF split /\ fate = "chunks" THEN Chunks(pdf_url) ELSE <<>>,
         left |-> IF downloaded /\ ~written THEN 1 ELSE 0]

\* PDFProcessor.process_pdf_from_url: the try / except / finally of lines 35-58.
process_pdf_from_url(pdf_url, fate) ==
    LET downloaded == fate # "download_fail"           \* requests.get, raise_for_status
        created == downloaded                          \* NamedTemporaryFile(delete=False)
        written == created /\ fate # "write_fail"      \* temp_file.write
        temp_path == written                           \* temp_path = temp_file.name
        loaded == temp_path /\ fate # "parse_fail"     \* loader.load()
        split == loaded /\ fate # "split_fail"         \* split_documents
        exc == IF ~downloaded
                 THEN Exc("RuntimeError", "Failed to download PDF from URL", pdf_url)
               ELSE IF ~written THEN Exc("OSError", "write failed", NoUrl)
               ELSE IF ~loaded THEN Exc("PdfReadError", "load failed", NoUrl)
               ELSE IF ~split THEN Exc("ValueError", "split failed", NoUrl)
               ELSE NoExc
        unlinked == temp_path                          \* finally: 'temp_path' in locals()
    IN  [raised |-> exc # NoExc,
         exc |-> exc,
         value |-> IF split /\ fate = "chunks" THEN Chunks(pdf_url) ELSE <<>>,
         left |-> IF created /\ ~unlinked THEN 1 ELSE 0]

\* The URLs a processor is called with directly: the extensions the code
\* knows and others, in both cases, with and without a query that itself
\* ends in an extension.
FetchUrls ==
    {"files/report.pdf", "files/report.PDF?name=a.txt", "files/report.docx",
     "files/report.Doc", "files/report.txt?name=a.pdf", "files/report?name=a.pdf",
     "files/report.txt", "files/report"}

\* doc_url.split('?')[0]
BeforeQuery(doc_url) ==
    CASE doc_url = "files/report.PDF?name=a.txt" -> "files/report.PDF"
      [] doc_url = "files/report.txt?name=a.pdf" -> "files/report.txt"
      [] doc_url = "files/report?name=a.pdf" -> "files/report"
      [] OTHER -> doc_url

\* os.path.splitext(path)[-1]
SplitExt(path) ==
    CASE path = "files/report.pdf" -> ".pdf"
      [] path = "files/report.PDF" -> ".PDF"
      [] path = "files/report.docx" -> ".docx"
      [] path = "files/report.Doc" -> ".Doc"
      [] path = "files/report.txt" -> ".txt"
      [] OTHER -> ""

\* str.lower() on the extensions that occur.
Lower(ext) ==
    CASE ext = ".PDF" -> ".pdf"
      [] ext = ".Doc" -> ".doc"
      [] OTHER -> ext

\* os.path.splitext(doc_url.split('?')[0])[-1].lower()
file_extension(doc_url) == Lower(SplitExt(BeforeQuery(doc_url)))

\* DocumentProcessor.process_document_from_url: lines 35-67.
process_document_from_url(doc_url, fate) ==
    LET ext == file_extension(doc_url)
        downloaded == fate # "download_fail"
        created == downloaded
        written == created /\ fate # "write_fail"
        temp_path == written
        supported == temp_path /\ ext \in {".pdf", ".doc", ".docx"}
        loaded == supported /\ fate # "parse_fail"
        split == loaded /\ fate # "split_fail"
        exc == IF ~downloaded
                 THEN Exc("RuntimeError", "Failed to download document from URL", doc_url)
               ELSE IF ~written THEN Exc("OSError", "write failed", NoUrl)
               ELSE IF ~supported THEN Exc("ValueError", "Unsupported file type", doc_url)
               ELSE IF ~loaded THEN Exc("LoaderError", "load failed", NoUrl)
               ELSE IF ~split THEN Exc("ValueError", "split failed", NoUrl)
               ELSE NoExc
        unlinked == temp_path
    IN  [raised |-> exc # NoExc,
         exc |-> exc,
         value |-> IF split /\ fate = "chunks" THEN Chunks(doc_url) ELSE <<>>,
         left |-> IF created /\ ~unlinked THEN 1 ELSE 0]

\* The mutant of create_vector_store: a failed embedding gives None instead
\* of raising.
create_vector_store_swallowing(documents, bfate, serial) ==
    IF documents = <<>> \/ bfate = "embed_fail"
      THEN [raised |-> FALSE, exc |-> NoExc, value |-> None]
      ELSE [raised |-> FALSE, exc |-> NoExc,
            value |-> [url |-> documents[1].source, serial |-> serial]]

\* PDFProcessor.create_vector_store; serial numbers the indexes built for a URL.
create_vector_store(documents, bfate, serial) ==
    IF documents = <<>>
      THEN [raised |-> FALSE, exc |-> NoExc, value |-> None]
    ELSE IF bfate = "embed_fail"
      THEN [raised |-> TRUE,
            exc |-> Exc("RuntimeError", "Failed to create FAISS vector store", NoUrl),
            value |-> None]
    ELSE [raised |-> FALSE, exc |-> NoExc,
          value |-> [url |-> documents[1].source, serial |-> serial]]

\* ------------------------------------------------------------ QAEngine
\* result['result'] of the chain (line 64): a text that answers the question
\* from the chunks retrieved from the index, here the index of the document
\* at url.
ChainResult(question, url) == "answer to " \o question \o " from " \o url

\* The texts get_answer returns without a result of the chain (lines 46, 68).
NoVectorStore == "Error: Vector store is not available."

ErrorProcessing(text) == "Error processing question: " \o text

\* What a call did: it returned value, or it raised the exception value.
Returned(value) == [raised |-> FALSE, value |-> value]

RaisedExc(exc) == [raised |-> TRUE, value |-> exc]

\* qa_engine.py lines 54-64: build the chain and run it; the retrieval or the
\* generation raises for the questions in failing.
qa_chain(vector_store, question, failing) ==
    IF question \in failing
      THEN RaisedExc(Exc("GenerationError", "generation failed", NoUrl))
      ELSE Returned(ChainResult(question, vector_store.url))

\* The mutant of get_answer: no except clause around the chain.
get_answer_unguarded(vector_store, question, failing) ==
    IF vector_store = None
      THEN Returned(NoVectorStore)
      ELSE qa_chain(vector_store, question, failing)

\* QAEngine.get_answer, lines 41-68.
get_answer(vector_store, question, failing) ==
    IF vector_store = None
      THEN Returned(NoVectorStore)
      ELSE LET result == qa_chain(vector_store, question, failing)
           IN  IF result.raised
                 THEN Returned(ErrorProcessing(result.value.text))
                 ELSE result

\* ------------------------------------------------------------- the cache
\* The mutant of InCache: the lookup never finds the key.
InCacheNever(doc_url, cache) == FALSE

\* doc_url in vector_store_cache
InCache(doc_url, cache) == doc_url \in DOMAIN cache

\* The mutant of CacheInsert: the entry is not stored.
CacheInsertDropped(cache, doc_url, index) == cache

\* vector_store_cache[doc_url] = vector_store
CacheInsert(cache, doc_url, index) == (doc_url :> index) @@ cache

EmptyCache == [u \in {} |-> None]

\* The outcome of the pipeline of a request or of the pre-warm: the cache
\* after it, what was printed, which collaborators were called, the
\* temporary files left behind, and the exception if one was raised.
Outcome(cache, vs, printed, fetched, build_called, built, left, exc) ==
    [cache |-> cache, vector_store |-> vs, printed |-> printed, fetched |-> fetched,
     build_called |-> build_called, built |-> built, left |-> left,
     raised |-> exc # NoExc, exc |-> exc]

\* app.py lines 87-105: cache lookup and, on a miss, fetch, build and insert.
resolve_vector_store(doc_url, cache, fate, bfate, serial) ==
    IF InCache(doc_url, cache)
      THEN Outcome(cache, cache[doc_url], <<"CACHE HIT">>, FALSE, FALSE, FALSE, 0, NoExc)
      ELSE
        LET documents == process_pdf_from_url(doc_url, fate)
            vs == create_vector_store(documents.value, bfate, serial)
        IN  IF documents.raised
              THEN Outcome(cache, None, <<"CACHE MISS">>, TRUE, FALSE, FALSE,
                           documents.left, documents.exc)
            ELSE IF documents.value = <<>>
              THEN Outcome(cache, None, <<"CACHE MISS">>, TRUE, FALSE, FALSE,
                           documents.left,
                           HTTPException(400, "Failed to process the PDF document. It might be empty or corrupted.", NoExc))
            ELSE IF vs.raised
              THEN Outcome(cache, None, <<"CACHE MISS", "Creating new vector store...">>,
                           TRUE, TRUE, FALSE, documents.left, vs.exc)
            ELSE Outcome(CacheInsert(cache, doc_url, vs.value), vs.value,
                         <<"CACHE MISS", "Creating new vector store...", "SAVED TO CACHE">>,
                         TRUE, TRUE, TRUE, documents.left, NoExc)

\* The mutant of handle_exception: the generic handler catches everything.
handle_exception_generic(exc) ==
    HTTPException(500, "An internal server error occurred: ", exc)

\* app.py lines 124-128: the except clauses of the request handler.
handle_exception(exc) ==
    IF exc.type = "HTTPException"
      THEN exc
      ELSE HTTPException(500, "An internal server error occurred: ", exc)

\* The mutant of startup_event: no `if documents` guard before the build.
startup_event_unguarded(cache, ok, fate, bfate, serial) ==
    IF ok /\ PRE_WARM_DOC_URL # NoUrl /\ ~InCache(PRE_WARM_DOC_URL, cache)
      THEN
        LET documents == process_pdf_from_url(PRE_WARM_DOC_URL, fate)
            vs == create_vector_store(documents.value, bfate, serial)
        IN  IF documents.raised
              THEN Outcome(cache, None, <<"STARTUP ERROR">>, TRUE, FALSE, FALSE,
                           documents.left, NoExc)
            ELSE IF vs.raised
              THEN Outcome(cache, None, <<"STARTUP ERROR">>, TRUE, TRUE, FALSE,
                           documents.left, NoExc)
            ELSE Outcome(CacheInsert(cache, PRE_WARM_DOC_URL, vs.value), vs.value,
                         <<"STARTUP CACHE POPULATED">>, TRUE, TRUE, documents.value # <<>>,
                         documents.left, NoExc)
      ELSE Outcome(cache, None, <<"STARTUP SKIPPED">>, FALSE, FALSE, FALSE, 0, NoExc)

\* app.py lines 54-66: startup_event; its except clause only prints.
startup_event(cache, ok, fate, bfate, serial) ==
    IF ok /\ PRE_WARM_DOC_URL # NoUrl /\ ~InCache(PRE_WARM_DOC_URL, cache)
      THEN
        LET documents == process_pdf_from_url(PRE_WARM_DOC_URL, fate)
            vs == create_vector_store(documents.value, bfate, serial)
        IN  IF documents.raised
              THEN Outcome(cache, None, <<"STARTUP ERROR">>, TRUE, FALSE, FALSE,
                           documents.left, NoExc)
            ELSE IF documents.value = <<>>
              THEN Outcome(cache, None, <<"STARTUP WARNING">>, TRUE, FALSE, FALSE,
                           documents.left, NoExc)
            ELSE IF vs.raised
              THEN Outcome(cache, None, <<"STARTUP ERROR">>, TRUE, TRUE, FALSE,
                           documents.left, NoExc)
            ELSE Outcome(CacheInsert(cache, PRE_WARM_DOC_URL, vs.value), vs.value,
                         <<"STARTUP CACHE POPULATED">>, TRUE, TRUE, TRUE,
                         documents.left, NoExc)
      ELSE Outcome(cache, None, <<"STARTUP SKIPPED">>, FALSE, FALSE, FALSE, 0, NoExc)

\* ------------------------------------------------------------ batching
Min(a, b) == IF a < b THEN a ELSE b

\* A second mutant of BatchQuestions: the slice has no upper end.
BatchQuestionsRest(all_questions, i) ==
    SubSeq(all_questions, i + 1, Len(all_questions))

\* The mutant of BatchQuestions: the slice stops one question early.
BatchQuestionsShort(all_questions, i) ==
    SubSeq(all_questions, i + 1, Min(i + batch_size - 1, Len(all_questions)))

\* all_questions[i:i + batch_size]
BatchQuestions(all_questions, i) ==
    SubSeq(all_questions, i + 1, Min(i + batch_size, Len(all_questions)))

Raised(results) == {k \in 1..Len(results) : results[k].raised}

Values(results) == [k \in 1..Len(results) |-> results[k].value]

\* The number of the batch (from 0) that question number j (from 1) is in.
BatchOf(j) == (j - 1) \div batch_size

\* --------------------------------------------------------------- state
VARIABLES
    initialized,         \* pdf_processor and qa_engine were constructed (app.py 39-45)
    vector_store_cache,  \* app.py 28
    startup,             \* what startup_event printed, "not_run" before it ran
    lens,                \* the lengths of the question lists the clients send
    doc_url,             \* the handler's local doc_url = request.doc_url (line 84)
    all_questions,       \* the handler's local all_questions = request.questions
                         \* (line 108)
    pc,                  \* "pending", "gather" (suspended at line 117) or "done"
    vector_store,        \* the handler's local vector_store
    batch_i,             \* the handler's loop variable i
    all_answers,         \* the handler's all_answers
    called,              \* for each question number for which get_answer was
                         \* called, the number of batches completed at the call
    response,            \* the HTTP response of each request
    printed,             \* what the handler of each request printed
    failing,             \* the questions whose retrieval or generation raises
    fetch_fate,          \* what happened to the fetch of each request
    build_fate,          \* what happened to the index build of each request
    fetch_calls,         \* calls of the Fetcher per URL
    build_calls,         \* calls of the Index Builder per URL (non-empty chunks)
    built,               \* indexes built per URL
    temp_files,          \* temporary files of the processors that exist
    direct_calls,        \* FetchSpec: direct calls of a processor made
    last_fetch           \* FetchSpec: the last direct call and its result

vars == <<initialized, vector_store_cache, startup, lens, doc_url, all_questions, pc,
          vector_store, batch_i, all_answers, called, response, printed, failing,
          fetch_fate, build_fate, fetch_calls, build_calls, built, temp_files,
          direct_calls, last_fetch>>

handler_vars == <<pc, vector_store, batch_i, all_answers, called, response, printed,
                  fetch_fate, build_fate>>

pipeline_vars == <<vector_store_cache, fetch_calls, build_calls, built, temp_files>>

NoResponse == [status_code |-> 0, body |-> "", answers |-> <<>>, detail |-> NoExc]

\* QuestionResponse(answers=all_answers), status 200.
QuestionResponse(answers) ==
    [status_code |-> 200, body |-> "answers", answers |-> answers, detail |-> NoExc]

\* The response FastAPI makes of a raised HTTPException.
ErrorResponse(http_exc) ==
    [status_code |-> http_exc.status_code, body |-> "detail", answers |-> <<>>,
     detail |-> http_exc]

NoFetch == [processor |-> "", url |-> NoUrl, fate |-> "", raised |-> FALSE,
            exc |-> NoExc, chunks |-> 0, left |-> 0]

\* The state after the module app.py was loaded, before startup_event.
InitService ==
    /\ initialized \in BOOLEAN
    /\ vector_store_cache = EmptyCache
    /\ startup = "not_run"
    /\ doc_url = [r \in Reqs |-> NoUrl]
    /\ all_questions = [r \in Reqs |-> <<>>]
    /\ pc = [r \in Reqs |-> "pending"]
    /\ vector_store = [r \in Reqs |-> None]
    /\ batch_i = [r \in Reqs |-> 0]
    /\ all_answers = [r \in Reqs |-> <<>>]
    /\ called = [r \in Reqs |-> <<>>]
    /\ response = [r \in Reqs |-> NoResponse]
    /\ printed = [r \in Reqs |-> <<>>]
    /\ failing \in SUBSET Questions
    /\ fetch_fate = [r \in Reqs |-> "none"]
    /\ build_fate = [r \in Reqs |-> "none"]
    /\ fetch_calls = [u \in DocUrls |-> 0]
    /\ build_calls = [u \in DocUrls |-> 0]
    /\ built = [u \in DocUrls |-> 0]
    /\ temp_files = 0
    /\ direct_calls = 0
    /\ last_fetch = NoFetch

\* The requests are in flight and wait for the server to take them.
Init ==
    /\ InitService
    /\ lens = QLens

\* The same service with clients that send short question lists only.
ShortInit ==
    /\ InitService
    /\ lens = ShortLens

Bump(counter, u, yes) == IF yes THEN [counter EXCEPT ![u] = @ + 1] ELSE counter

\* startup_event (app.py 48-66) runs once, before the server takes requests.
Startup ==
    /\ startup = "not_run"
    /\ \E fate \in FetchFatesIf(initialized) :
       \E bfate \in BuildFatesIf(fate) :
         LET out == startup_event(vector_store_cache, initialized, fate, bfate,
                                  built[PRE_WARM_DOC_URL] + 1)
         IN  /\ vector_store_cache' = out.cache
             /\ startup' = out.printed[1]
             /\ fetch_calls' = Bump(fetch_calls, PRE_WARM_DOC_URL, out.fetched)
             /\ build_calls' = Bump(build_calls, PRE_WARM_DOC_URL, out.build_called)
             /\ built' = Bump(built, PRE_WARM_DOC_URL, out.built)
             /\ temp_files' = temp_files + out.left
    /\ UNCHANGED <<initialized, lens, doc_url, all_questions, failing, handler_vars,
                   direct_calls, last_fetch>>

\* process_questions_from_pdf from its start to its first suspension or its
\* end: lines 81-117, and 121-128 when there is no question or an exception.
\* The requests are numbered in the order in which the server takes them.
Handle(r) ==
    /\ startup # "not_run"
    /\ pc[r] = "pending"
    /\ \A earlier \in 1..(r - 1) : pc[earlier] # "pending"
    /\ \E url \in DocUrls :
       \E fate \in FetchFatesIf(initialized /\ ~InCache(url, vector_store_cache)) :
       \E bfate \in BuildFatesIf(fate) :
       \E n \in IF fate \in {"none", "chunks"} /\ bfate # "embed_fail" THEN lens ELSE {0} :
         LET questions == QList(n)
             out == resolve_vector_store(url, vector_store_cache, fate, bfate,
                                         built[url] + 1)
         IN  IF ~initialized
               THEN /\ response' = [response EXCEPT ![r] = ErrorResponse(
                            HTTPException(500, "API Initialization Failed: ",
                                Exc("ValueError", "GOOGLE_API_KEY environment variable not found.", NoUrl)))]
                    /\ pc' = [pc EXCEPT ![r] = "done"]
                    /\ UNCHANGED <<doc_url, all_questions, vector_store, printed,
                                   fetch_fate, build_fate, pipeline_vars>>
               ELSE /\ doc_url' = [doc_url EXCEPT ![r] = url]
                    /\ vector_store_cache' = out.cache
                    /\ fetch_calls' = Bump(fetch_calls, url, out.fetched)
                    /\ build_calls' = Bump(build_calls, url, out.build_called)
                    /\ built' = Bump(built, url, out.built)
                    /\ temp_files' = temp_files + out.left
                    /\ fetch_fate' = [fetch_fate EXCEPT ![r] =
                                         IF out.fetched THEN fate ELSE "none"]
                    /\ build_fate' = [build_fate EXCEPT ![r] =
                                         IF out.build_called THEN bfate ELSE "none"]
                    /\ vector_store' = [vector_store EXCEPT ![r] = out.vector_store]
                    /\ IF out.raised
                         THEN /\ response' = [response EXCEPT ![r] =
                                                 ErrorResponse(handle_exception(out.exc))]
                              /\ printed' = [printed EXCEPT ![r] =
                                    IF out.exc.type = "HTTPException"
                                      THEN out.printed
                                      ELSE Append(out.printed, "An unexpected error occurred")]
                              /\ pc' = [pc EXCEPT ![r] = "done"]
                              /\ UNCHANGED all_questions
                       ELSE IF Len(questions) = 0
                         THEN /\ all_questions' = [all_questions EXCEPT ![r] = questions]
                              /\ response' = [response EXCEPT ![r] = QuestionResponse(<<>>)]
                              /\ printed' = [printed EXCEPT ![r] =
                                    Append(out.printed, "Successfully generated all answers.")]
                              /\ pc' = [pc EXCEPT ![r] = "done"]
                         ELSE /\ all_questions' = [all_questions EXCEPT ![r] = questions]
                              /\ printed' = [printed EXCEPT ![r] = out.printed]
                              /\ pc' = [pc EXCEPT ![r] = "gather"]
                              /\ UNCHANGED response
    /\ UNCHANGED <<initialized, startup, lens, failing, batch_i, all_answers, called,
                   direct_calls, last_fetch>>

CompletedBatches(r) ==
    Cardinality({k \in 1..Len(printed[r]) : printed[r][k] = "Completed batch"})

\* The await of gather and the handler after it: the loop runs the tasks of
\* the batch, one qa_engine.get_answer(vector_store, q) per question in
\* order, each to its end as get_answer has no await (line 116); gather gives
\* their results in order, or raises the first exception; the handler goes on
\* with lines 117-119 and then the next pass of the loop up to line 117, or
\* lines 121-122, or the except clauses.
Gather(r) ==
    /\ pc[r] = "gather"
    /\ \E batch_questions \in {BatchQuestions(all_questions[r], batch_i[r])} :
       \E results \in {[k \in 1..Len(batch_questions) |->
                          get_answer(vector_store[r], batch_questions[k], failing)]} :
       \E completed \in {CompletedBatches(r)} :
       LET answers == all_answers[r] \o Values(results)
           i == batch_i[r] + batch_size
       IN  /\ called' = [called EXCEPT ![r] =
                 [j \in {batch_i[r] + k : k \in 1..Len(batch_questions)} |->
                     completed] @@ @]
           /\ IF Raised(results) # {}
                THEN /\ response' = [response EXCEPT ![r] = ErrorResponse(
                            handle_exception(results[CHOOSE k \in Raised(results) :
                                \A j \in Raised(results) : k <= j].value))]
                     /\ printed' = [printed EXCEPT ![r] =
                                       Append(@, "An unexpected error occurred")]
                     /\ pc' = [pc EXCEPT ![r] = "done"]
                     /\ UNCHANGED <<all_answers, batch_i>>
              ELSE IF i < Len(all_questions[r])
                THEN /\ all_answers' = [all_answers EXCEPT ![r] = answers]
                     /\ batch_i' = [batch_i EXCEPT ![r] = i]
                     /\ printed' = [printed EXCEPT ![r] = Append(@, "Completed batch")]
                     /\ UNCHANGED <<pc, response>>
              ELSE   /\ all_answers' = [all_answers EXCEPT ![r] = answers]
                     /\ response' = [response EXCEPT ![r] = QuestionResponse(answers)]
                     /\ printed' = [printed EXCEPT ![r] =
                           @ \o <<"Completed batch", "Successfully generated all answers.">>]
                     /\ pc' = [pc EXCEPT ![r] = "done"]
                     /\ UNCHANGED batch_i
    /\ UNCHANGED <<initialized, startup, lens, doc_url, all_questions, failing,
                   vector_store, fetch_fate, build_fate, pipeline_vars, direct_calls,
                   last_fetch>>

Next ==
    \/ Startup
    \/ \E r \in Reqs : Handle(r)
    \/ \E r \in Reqs : Gather(r)

Spec == Init /\ [][Next]_vars

\* The event loop runs every callback that is ready, so no enabled step of
\* the startup or of a request waits for ever.
Fairness ==
    /\ WF_vars(Startup)
    /\ \A r \in Reqs : WF_vars(Handle(r)) /\ WF_vars(Gather(r))

FairSpec == ShortInit /\ [][Next]_vars /\ Fairness

\* ------------------------------------------------- the processors alone
FetchRecord(processor, url, fate, result) ==
    [processor |-> processor, url |-> url, fate |-> fate, raised |-> result.raised,
     exc |-> result.exc, chunks |-> Len(result.value), left |-> result.left]

\* No request is sent: the processors are called as a library.
FetchInit ==
    /\ InitService
    /\ lens = {}

\* One call of PDFProcessor.process_pdf_from_url.
CallPdfProcessor ==
    /\ direct_calls < MaxFetchCalls
    /\ \E url \in FetchUrls, fate \in FetchFates :
         LET result == process_pdf_from_url(url, fate)
         IN  /\ last_fetch' = FetchRecord("PDFProcessor", url, fate, result)
             /\ temp_files' = temp_files + result.left
    /\ direct_calls' = direct_calls + 1
    /\ UNCHANGED <<initialized, vector_store_cache, startup, lens, doc_url,
                   all_questions, failing, handler_vars, fetch_calls, build_calls, built>>

\* One call of DocumentProcessor.process_document_from_url.
CallDocumentProcessor ==
    /\ direct_calls < MaxFetchCalls
    /\ \E url \in FetchUrls, fate \in FetchFates :
         LET result == process_document_from_url(url, fate)
         IN  /\ last_fetch' = FetchRecord("DocumentProcessor", url, fate, result)
             /\ temp_files' = temp_files + result.left
    /\ direct_calls' = direct_calls + 1
    /\ UNCHANGED <<initialized, vector_store_cache, startup, lens, doc_url,
                   all_questions, failing, handler_vars, fetch_calls, build_calls, built>>

FetchNext == CallPdfProcessor \/ CallDocumentProcessor

FetchSpec == FetchInit /\ [][FetchNext]_vars

\* ------------------------------------------------------------ properties
Done(r) == pc[r] = "done"

Says(lines, line) == \E k \in 1..Len(lines) : lines[k] = line

CacheHit(r) == Says(printed[r], "CACHE HIT")

CacheMiss(r) == Says(printed[r], "CACHE MISS")

Saved(r) == Says(printed[r], "SAVED TO CACHE")

\* The document pipeline of request r succeeded.
PipelineSucceeded(r) == CacheHit(r) \/ Saved(r)

\* URL u was not in the cache when the server began to take requests.
UncachedAtStart(u) ==
    /\ startup # "not_run"
    /\ ~(u = PRE_WARM_DOC_URL /\ startup = "STARTUP CACHE POPULATED")

\* Requests a and b are two requests for the same URL u.
SameUrl(a, b, u) == a # b /\ doc_url[a] = u /\ doc_url[b] = u

\* C1: a request whose document pipeline succeeded ends with status 200 and
\* an answers list with one entry per question, in the order of the
\* questions, entry i being what get_answer gives for question i on the
\* index of the request's URL; for 0, batch_size and batch_size + 1 questions.
C1_AnswersMatchQuestions ==
    \A r \in Reqs :
        Done(r) /\ PipelineSucceeded(r) =>
            /\ response[r].status_code = 200
            /\ response[r].body = "answers"
            /\ vector_store[r].url = doc_url[r]
            /\ Len(response[r].answers) = Len(all_questions[r])
            /\ \A i \in 1..Len(all_questions[r]) :
                  response[r].answers[i] =
                      get_answer(vector_store[r], all_questions[r][i], failing).value

C1_Witness ==
    \E r \in Reqs :
        /\ Done(r) /\ PipelineSucceeded(r)
        /\ Len(all_questions[r]) = batch_size + 1
        /\ Len(response[r].answers) = batch_size + 1

\* The URL is warm: the pre-warm cached it, or a request for it ended with 200.
Warm(u) ==
    \/ u = PRE_WARM_DOC_URL /\ startup = "STARTUP CACHE POPULATED"
    \/ \E r \in Reqs : doc_url[r] = u /\ Done(r) /\ response[r].status_code = 200

\* C2: once a URL is warm no step calls the Fetcher or the Index Builder for
\* it again, exactly one index was ever built for it, and a request for it
\* that the server takes prints CACHE HIT and works on the cached index.
C2_NoRefetchOnceWarm ==
    [][\A u \in DocUrls :
          Warm(u) =>
            /\ fetch_calls'[u] = fetch_calls[u]
            /\ build_calls'[u] = build_calls[u]
            /\ built[u] = 1 /\ built'[u] = 1
            /\ \A r \in Reqs :
                  pc[r] = "pending" /\ pc'[r] # "pending" /\ doc_url'[r] = u =>
                      /\ Says(printed'[r], "CACHE HIT")
                      /\ vector_store'[r] = vector_store_cache[u]]_vars

C2_Witness ==
    \E a, b \in Reqs :
        /\ a < b /\ doc_url[a] = doc_url[b]
        /\ Saved(a) /\ Done(a) /\ response[a].status_code = 200
        /\ CacheHit(b) /\ Done(b) /\ response[b].status_code = 200
        /\ fetch_calls[doc_url[a]] = 1

\* C3: a request whose fetch returned an empty chunk sequence ends with
\* status 400 and the detail of the HTTPException raised at line 98.
C3_EmptyChunksGive400 ==
    \A r \in Reqs :
        Done(r) /\ fetch_fate[r] = "empty" =>
            /\ CacheMiss(r)
            /\ response[r].status_code = 400
            /\ response[r].body = "detail"
            /\ response[r].detail.text =
                  "Failed to process the PDF document. It might be empty or corrupted."

C3_Witness ==
    \E r \in Reqs :
        Done(r) /\ fetch_fate[r] = "empty" /\ response[r].status_code = 400

\* C4 as stated, its part about the cache: when two requests for the same URL,
\* uncached when the server began to take requests, have both ended, the
\* cache maps the URL to a built index.
C4_CacheMapsUrlAfterBoth ==
    \A u \in DocUrls : \A a, b \in Reqs :
        SameUrl(a, b, u) /\ UncachedAtStart(u) /\ Done(a) /\ Done(b) =>
            u \in DOMAIN vector_store_cache /\ vector_store_cache[u] # None

\* C4 amended: every request ends with a response of status 200, 400 or 500;
\* when two requests for the same URL, uncached at the start, have both
\* ended, the cache has no entry for the URL or maps it to an index built
\* for it, and it has the entry when one of the two ended with 200.
C4_BothEndAndCacheUsable ==
    /\ <>(\A r \in Reqs : Done(r) /\ response[r].status_code \in {200, 400, 500})
    /\ [](\A u \in DocUrls : \A a, b \in Reqs :
            SameUrl(a, b, u) /\ UncachedAtStart(u) /\ Done(a) /\ Done(b) =>
              /\ u \in DOMAIN vector_store_cache =>
                    /\ vector_store_cache[u] # None
                    /\ vector_store_cache[u].url = u
              /\ response[a].status_code = 200 \/ response[b].status_code = 200 =>
                    u \in DOMAIN vector_store_cache)

C4_Witness ==
    \E u \in DocUrls : \E a, b \in Reqs :
        /\ SameUrl(a, b, u) /\ UncachedAtStart(u) /\ Done(a) /\ Done(b)
        /\ response[a].status_code = 200 /\ response[b].status_code = 200
        /\ u \in DOMAIN vector_store_cache

\* C5 as stated: two requests for the same URL, uncached when the server
\* began to take requests, that both ended with 200 have both seen a cache
\* miss and have both written the cache entry.
C5_BothMissAndWrite ==
    \A u \in DocUrls : \A a, b \in Reqs :
        /\ SameUrl(a, b, u) /\ UncachedAtStart(u) /\ Done(a) /\ Done(b)
        /\ response[a].status_code = 200 /\ response[b].status_code = 200
        => CacheMiss(a) /\ Saved(a) /\ CacheMiss(b) /\ Saved(b)

\* C5 amended: no lock guards the cache, but the handler does not suspend
\* between the lookup and the insert, so of the requests for one URL at most
\* one writes the entry, the pre-warm included; every request taken after
\* the write sees a cache hit; a request sees a miss only when no earlier
\* request or pre-warm has written the entry.
C5_AtMostOneWrite ==
    \A u \in DocUrls : \A a, b \in Reqs :
        SameUrl(a, b, u) /\ a < b =>
            /\ ~(Saved(a) /\ Saved(b))
            /\ Saved(a) => CacheHit(b)
            /\ CacheMiss(b) => ~Saved(a) /\ UncachedAtStart(u)
            /\ Saved(a) \/ Saved(b) => UncachedAtStart(u) /\ built[u] = 1

C5_Witness ==
    \E u \in DocUrls : \E a, b \in Reqs :
        /\ SameUrl(a, b, u) /\ a < b /\ UncachedAtStart(u)
        /\ Saved(a) /\ CacheHit(b) /\ Done(a) /\ Done(b)
        /\ response[a].status_code = 200 /\ response[b].status_code = 200

\* C6: no exception of get_answer reaches the handler: a request whose
\* pipeline succeeded ends with status 200 and an answers list that has, at
\* the position of each question whose retrieval or
\* generation failed, the answer "Error processing question: " with the
\* error's text, and at every other position the answer to its question.
C6_FailuresBecomeAnswers ==
    \A r \in Reqs :
        Done(r) /\ PipelineSucceeded(r) =>
              /\ response[r].status_code = 200
              /\ response[r].body = "answers"
              /\ \A i \in 1..Len(all_questions[r]) :
                    /\ i <= Len(response[r].answers)
                    /\ response[r].answers[i] =
                          IF all_questions[r][i] \in failing
                            THEN "Error processing question: generation failed"
                            ELSE ChainResult(all_questions[r][i], doc_url[r])

C6_Witness ==
    \E r \in Reqs : \E i, j \in 1..Len(all_questions[r]) :
        /\ Done(r) /\ response[r].status_code = 200
        /\ all_questions[r][i] \in failing
        /\ all_questions[r][j] \notin failing
        /\ response[r].answers[i] = "Error processing question: generation failed"
        /\ response[r].answers[j] = ChainResult(all_questions[r][j], doc_url[r])

\* C7: no temporary file of a fetch exists once the fetch has returned or
\* failed.
C7_TempFileRemoved == temp_files = 0

\* C8: get_answer is called for a question of batch k exactly when k batches
\* were completed, so for no question of batch k + 1 before the end of
\* every call of batch k; the calls of a request come in the order of the
\* questions; a request whose pipeline succeeded ends only after the call for
\* every question of every batch, whichever questions failed.
C8_BatchesInSequence ==
    \A r \in Reqs :
        /\ \A j \in DOMAIN called[r] :
              /\ called[r][j] = BatchOf(j)
              /\ j = 1 \/ j - 1 \in DOMAIN called[r]
        /\ Done(r) /\ PipelineSucceeded(r) =>
              /\ DOMAIN called[r] = 1..Len(all_questions[r])
              /\ CompletedBatches(r) =
                    (Len(all_questions[r]) + batch_size - 1) \div batch_size

C8_Witness ==
    \E r \in Reqs :
        /\ Done(r) /\ response[r].status_code = 200
        /\ Len(all_questions[r]) = batch_size + 1
        /\ all_questions[r][1] \in failing
        /\ DOMAIN called[r] = 1..(batch_size + 1)
        /\ called[r][batch_size] = 0
        /\ called[r][batch_size + 1] = 1
        /\ CompletedBatches(r) = 2

\* C9: a request whose fetch or index build raised ends with status 500 and
\* the error's text in the detail, without a call of get_answer and without
\* an answers list.
C9_PipelineErrorsGive500 ==
    \A r \in Reqs :
        Done(r) /\ (fetch_fate[r] \in FetchFailures \/ build_fate[r] = "embed_fail") =>
            /\ CacheMiss(r)
            /\ response[r].status_code = 500
            /\ response[r].body = "detail"
            /\ response[r].answers = <<>>
            /\ response[r].detail.text = "An internal server error occurred: "
            /\ response[r].detail.about # ""
            /\ response[r].detail.about =
                  IF fetch_fate[r] \in FetchFailures
                    THEN process_pdf_from_url(doc_url[r], fetch_fate[r]).exc.text
                    ELSE "Failed to create FAISS vector store"
            /\ called[r] = <<>>
            /\ all_answers[r] = <<>>

C9_Witness ==
    \E a, b \in Reqs :
        /\ Done(a) /\ fetch_fate[a] = "download_fail" /\ response[a].status_code = 500
        /\ Done(b) /\ build_fate[b] = "embed_fail" /\ response[b].status_code = 500

\* C10: every key of the cache maps to an index built for that key; the keys
\* are the URLs that the pre-warm or a request saved, and a request that
\* saved one did not end with 400 or 500; a handler that answers questions
\* holds an index, and no answer is the text for an absent index.
C10_CacheHoldsBuiltIndexes ==
    /\ \A u \in DOMAIN vector_store_cache :
          /\ vector_store_cache[u] # None
          /\ vector_store_cache[u].url = u
          /\ vector_store_cache[u].serial >= 1
    /\ \A u \in DocUrls :
          u \in DOMAIN vector_store_cache <=>
              \/ u = PRE_WARM_DOC_URL /\ startup = "STARTUP CACHE POPULATED"
              \/ \E r \in Reqs : doc_url[r] = u /\ Saved(r)
    /\ \A r \in Reqs :
          /\ pc[r] = "gather" \/ PipelineSucceeded(r) => vector_store[r] # None
          /\ Saved(r) /\ Done(r) => response[r].status_code = 200
          /\ \A i \in 1..Len(response[r].answers) :
                response[r].answers[i] # "Error: Vector store is not available."

C10_Witness ==
    /\ startup \in {"STARTUP WARNING", "STARTUP ERROR"}
    /\ \E a, b \in Reqs :
          /\ Done(a) /\ response[a].status_code = 400
          /\ doc_url[a] \notin DOMAIN vector_store_cache
          /\ Saved(b) /\ Done(b) /\ Len(response[b].answers) > 0

====
